---- MODULE Spec2Model ----
(***************************************************************************)
(* A model of the crawl engine of info-aggeration:                         *)
(* internal/crawler/spider.go (Spider.StartWithTask, Spider.Stop, the      *)
(* request handlers registered on the colly collector) as driven by        *)
(* internal/api/site_controller.go (RunSiteTask).                          *)
(*                                                                         *)
(* The collector is created with colly.Async(true): every admitted Visit   *)
(* and every Request.Retry starts one fetch goroutine, counted by the      *)
(* collector's wait group.  A fetch goroutine takes a slot of the limit    *)
(* rule's channel, performs the HTTP request, sleeps the rule's Delay,     *)
(* gives the slot back, and then runs the registered callbacks.            *)
(*                                                                         *)
(* Time is discrete: one Tick is TickMs milliseconds.                      *)
(*                                                                         *)
(* Beside the crawl: the stores of internal/storage (Save, SaveBatch), the *)
(* field extraction and the text cleaning as pure functions applied to     *)
(* drawn inputs, and the task API of internal/storage/database.go, whose   *)
(* handlers read and write one row of the tasks table in separate steps.   *)
(***************************************************************************)
EXTENDS Integers, Sequences, FiniteSets, TLC

\* ------------------------------------------------------------------ bounds
MaxStartURLs == 2      \* longest StartURLs list drawn by Init
MaxConcurrent == 2     \* largest Concurrent value drawn by Init
MaxDelayTicks == 1     \* largest Delay drawn by Init, in ticks
MaxRetries == 10       \* largest config.Spider.Retries drawn by Init
MaxMaxPages == 1       \* largest task.Rules.MaxPages drawn by Init
MaxMaxDepth == 1       \* largest task.Rules.MaxDepth drawn by Init
MaxApiClients == 2     \* task API requests that may be in progress at once
MaxItemMatches == 2    \* most elements of a page an item selector matches
MaxStoreRows == 3      \* most records a store holds
MaxBatch == 2          \* longest batch given to SaveBatch
MaxTextLen == 5        \* longest text given to the text cleaning
MaxSiteRuns == 2       \* RunSiteTask requests made for the site

\* ------------------------------------------------------- program constants
TickMs == 1000         \* one model tick, in ms (config.go default Delay)
RetrySleepMs == 2000   \* time.Sleep(time.Second * 2) in the error handler
VisitDepth == 1        \* depth colly gives to a request made by c.Visit

AttemptCap == MaxRetries + 2   \* the attempt counter saturates here

Min(a, b) == IF a < b THEN a ELSE b
Max(a, b) == IF a > b THEN a ELSE b

\* --------------------------------------------------------------- the URLs
\* A URL is kept as the list strings.Split(url, "/") returns for it.
URL_a1 == <<"http:", "", "a.com", "p1">>
URL_a2 == <<"http:", "", "a.com", "p2">>
URL_b1 == <<"http:", "", "b.com", "p1">>
URLList == <<URL_a1, URL_a2, URL_b1>>
URLSet == {URLList[k] : k \in 1..Len(URLList)}
BaseURL_a == <<"http:", "", "a.com">>
BaseURL_empty == <<"">>            \* strings.Split("", "/")
BaseURLSet == {BaseURL_a, BaseURL_empty}

\* Links a fetched page may carry (the hrefs its "links" selector matches).
PageLinks(url) == URLSet \ {url}

getDomainFromURL(url) == IF Len(url) >= 3 THEN url[3] ELSE "unknown"

\* url.Hostname() of the parsed URL, which colly's domain filter reads.
Hostname(url) == IF Len(url) >= 3 THEN url[3] ELSE ""

Hosts == {Hostname(u) : u \in URLSet}

\* ------------------------------------------------ decimal strings (digits)
\* A string of decimal digits is a sequence of its characters '0'..'9',
\* each kept as the digit's value: bytes '0' < '1' < ... < '9' order alike.
RECURSIVE Sprintf_d(_)
Sprintf_d(n) == IF n < 10 THEN <<n>> ELSE Sprintf_d(n \div 10) \o <<n % 10>>

\* Go's < on strings: bytewise lexicographic, a proper prefix is smaller.
RECURSIVE StrLess(_, _)
StrLess(s, t) ==
    IF t = <<>> THEN FALSE
    ELSE IF s = <<>> THEN TRUE
    ELSE IF Head(s) < Head(t) THEN TRUE
    ELSE IF Head(s) > Head(t) THEN FALSE
    ELSE StrLess(Tail(s), Tail(t))

getRetryCount(retryStr) ==
    IF retryStr = <<>> THEN 0
    ELSE IF retryStr = <<1>> THEN 1
    ELSE IF retryStr = <<2>> THEN 2
    ELSE IF retryStr = <<3>> THEN 3
    ELSE 0

\* ------------------------------------------------------------------ state
VARIABLES
    config,       \* s.config.Spider: Concurrent, Delay (ms), Retries
    task,         \* the CrawlTask handed to StartWithTask
    running,      \* s.running
    mu,           \* holder of s.mu: "free" or "start"
    pc,           \* position of the StartWithTask call
    nextURL,      \* index into task.StartURLs of the loop at spider.go:84
    limit,        \* the collector's LimitRule: Parallelism, Delay (ms)
    visited,      \* the collector's visited store (AllowURLRevisit = false)
    wg,           \* the collector's wait group counter
    slots,        \* occupied places of the limit rule's wait channel
    req,          \* the fetch goroutines, by request id
    age,          \* per host: ms since the last dispatch, -1 = none yet
    items,        \* the items handed to storage.Save
    stop,         \* the Stop call: its position, and whether made mid-run
    stopApplied,  \* Stop reached spider.go:107 (s.running = false)
    nilHandler,   \* Stop registered OnError(nil) at spider.go:110
    result,       \* what the StartWithTask call returned: "nil" or "error"
    storage,      \* the store of the run: "ok", or "flaky" (a Save may fail)
    row,          \* the row of the tasks table the task API works on
    api,          \* the task API requests in progress
    mtask,        \* Status of a models.CrawlTask object
    store,        \* a Storage made by NewStorage: its kind and its records
    ex,           \* one field extraction: its inputs and its result
    clean,        \* one text cleaning: the function, its input and result
    call2,        \* a second StartWithTask call on the same Spider
    site,         \* the status column of the site's row
    jobs          \* the background goroutines of RunSiteTask: their positions

apiVars == <<row, api, mtask>>

envVars == <<store, ex, clean, call2, site, jobs>>

vars == <<config, task, running, mu, pc, nextURL, limit, visited, wg, slots,
          req, age, items, stop, stopApplied, nilHandler, result, storage,
          row, api, mtask, store, ex, clean, call2, site, jobs>>

\* Request ids: one per entry of StartURLs (a seed), then one per URL for a
\* request made for a link found on a page.
SeedIds == 1..Len(task.StartURLs)
LinkId(url) ==
    Len(task.StartURLs) + (CHOOSE k \in 1..Len(URLList) : URLList[k] = url)
ReqIds == 1..(Len(task.StartURLs) + Len(URLList))

NoReq == [url |-> <<>>, depth |-> 0, phase |-> "none", hdr |-> <<>>,
          timer |-> 0, outcome |-> "none", attempts |-> 0,
          saves |-> 0, saveErr |-> FALSE]

Outcomes == {"ok", "transient", "permanent"}

Live == {"queued", "inflight", "delay", "backoff"}

\* ------------------------------------------- StartWithTask: configuration
\* A variant that forgets the task-level override (lines 66-68 missing).
LimitParallelism_ConfigOnly(cfg, t) == cfg.Concurrent

\* spider.go:64-68, the Parallelism given to c.Limit.
LimitParallelism(cfg, t) ==
    IF t.Rules.Concurrent > 0 THEN t.Rules.Concurrent ELSE cfg.Concurrent

\* spider.go:65-71, the Delay given to c.Limit, in ms.
LimitDelay(cfg, t) ==
    IF t.Rules.Delay > 0 THEN t.Rules.Delay ELSE cfg.Delay

\* Capacity of the limit rule's wait channel (colly: 1 unless Parallelism > 1).
WaitChanSize(parallelism) == IF parallelism > 1 THEN parallelism ELSE 1

\* A variant that does what the comment at spider.go:133 says (allow revisits).
AllowURLRevisit_Allowed == TRUE

\* spider.go:134
AllowURLRevisit == FALSE

\* spider.go:137-138
AllowedDomains(t) == {getDomainFromURL(t.BaseURL)}

\* The collector's MaxDepth: setupCollector never sets it (0 = no limit).
CollectorMaxDepth(t) == 0

\* colly's requestCheck for a request to url at the given depth.
RequestAllowed(url, depth, checkRevisit) ==
    /\ ~(CollectorMaxDepth(task) > 0 /\ CollectorMaxDepth(task) < depth)
    /\ Hostname(url) \in AllowedDomains(task)
    /\ (checkRevisit /\ ~AllowURLRevisit) => url \notin visited

\* ------------------------------------------------------------ the handlers
\* spider.go:168-173: the error handler's retry decision.
ShouldRetry(retryCount, retries) ==
    StrLess(IF retryCount = <<>> THEN <<0>> ELSE retryCount, Sprintf_d(retries))

\* spider.go:174: the Retry-Count header written before a retry.
NewCount(retryCount) ==
    Sprintf_d(getRetryCount(IF retryCount = <<>> THEN <<0>> ELSE retryCount) + 1)

\* spider.go:239-246: the links extractData stores in item.Links.
ExtractLinks(url) == PageLinks(url)

\* A variant in which processPage visits every link it extracted.
FollowedLinks_All(url) == ExtractLinks(url)

\* spider.go:190-209: the links processPage submits to the collector for a
\* visit.  It stores them in the item and submits none.
FollowedLinks(url) == {}

\* A variant that calls Save a second time when the first call failed.
SaveCalls_AgainOnError(saveOk) == IF saveOk THEN 1 ELSE 2

\* spider.go:204-208: the calls of s.storage.Save processPage makes for one
\* page, given what the call returned: one, its error is only logged.
SaveCalls(saveOk) == 1

\* spider.go:153-156: the selector given to c.OnHTML.
ItemSelector(t) ==
    IF t.Selectors.item # "" THEN t.Selectors.item ELSE "html"

\* How many elements of a fetched page the selector can match; c.OnHTML runs
\* its callback once for each.  A parsed page has one html element.
MatchCounts(selector) ==
    IF selector = "html" THEN {1} ELSE 0..MaxItemMatches

\* What a call of s.storage.Save can return: TRUE for nil, FALSE for an error.
SaveOutcomes(mode) == IF mode = "flaky" THEN {TRUE, FALSE} ELSE {TRUE}

\* The Save calls that may fail among m calls on the store.
SaveFailures(mode, m) ==
    IF FALSE \in SaveOutcomes(mode) THEN 0..m ELSE {0}

\* A variant without the c.Wait() call: StartWithTask goes on at once.
WaitReturns_NoWait(w) == TRUE

\* spider.go:90: c.Wait() returns when the wait group counter is zero.
WaitReturns(w) == w = 0

\* ------------------------------------------------------------------- Init
Configs ==
    [Concurrent : 1..MaxConcurrent, Delay : {TickMs}, Retries : 1..MaxRetries]

\* The rules of a task; AllowedDomains and ForbiddenDomains are the fields
\* of models.CrawlRules (item.go:283-284).
RulesWith(depths, pages, concurrents, delays, allowed, forbidden) ==
    [MaxDepth : depths, MaxPages : pages, Concurrent : concurrents,
     Delay : delays, AllowedDomains : allowed, ForbiddenDomains : forbidden]

DelayChoices == {k * TickMs : k \in 0..MaxDelayTicks}

DomainSets == SUBSET Hosts

Rules ==
    RulesWith(0..MaxMaxDepth, 0..MaxMaxPages, 0..MaxConcurrent, DelayChoices,
              DomainSets, DomainSets)

StartURLLists == UNION {[1..n -> URLSet] : n \in 0..MaxStartURLs}

\* task.Selectors: the selector stored under "item", "" when there is none.
ItemSelectors == {"", "div.item"}

TasksSel(bases, lists, rules, itemSels) ==
    [BaseURL : bases, StartURLs : lists, Rules : rules,
     Selectors : [item : itemSels]]

TasksWith(bases, lists, rules) == TasksSel(bases, lists, rules, {""})

Tasks == TasksSel(BaseURLSet, StartURLLists, Rules, ItemSelectors)

\* The HTTP clients of the task API, and a client with no request under way.
ApiClients == 1..MaxApiClients

NoCall == [op |-> "none", status |-> "none", name |-> ""]

\* The names a PUT /tasks/:id request can carry (TaskRequest.Name).
TaskNames == {"n0", "n1"}

\* The requests of the task API on one task (database.go:461-466).
TaskOps == {"UpdateTask", "DeleteTask", "StartTask", "StopTask"}

\* storage.go:16-27: the Storage NewStorage returns for cfg.Type (for
\* "database" one per driver, whose upsert statements differ), empty.
StorageTypes == {"file", "sqlite3", "mysql", "excel"}

\* The items given to a store: a URL and one more field.
StoreItems == [URL : {URL_a1, URL_a2}, Title : {"t1", "t2"}]

NoItem == [URL |-> <<>>, Title |-> ""]

\* rows: the records held; last: per URL the item of the latest successful
\* Save; op, err: the latest call and whether it returned an error.
NewStorage(types) ==
    {[type |-> t, rows |-> <<>>, last |-> [u \in {URL_a1, URL_a2} |-> NoItem],
      op |-> "none", err |-> FALSE] : t \in types}

\* A row of the tasks table as CreateTask inserts it (database.go:1247-1250;
\* the counters take the DEFAULT 0 of connection.go:98-102).  exists turns
\* FALSE when the row is deleted.
NewRow ==
    [status |-> "pending", total_urls |-> 0, processed_urls |-> 0,
     success_urls |-> 0, failed_urls |-> 0, items_count |-> 0,
     name |-> "n0", exists |-> TRUE]

InitRun(cfgs, tasks, stores, pcs) ==
    /\ config \in cfgs
    /\ task \in tasks
    /\ storage \in stores
    /\ result = "none"
    /\ row = NewRow
    /\ api = [c \in ApiClients |-> NoCall]
    /\ mtask = "pending"
    /\ running = FALSE
    /\ mu = "free"
    /\ pc \in pcs
    /\ nextURL = 1
    /\ limit = [Parallelism |-> 0, Delay |-> 0]
    /\ visited = {}
    /\ wg = 0
    /\ slots = 0
    /\ req = [id \in ReqIds |-> NoReq]
    /\ age = [h \in Hosts |-> -1]
    /\ items = {}
    /\ stop = [pc |-> "idle", midRun |-> FALSE]
    /\ stopApplied = FALSE
    /\ nilHandler = FALSE

\* No field extraction under way.
NoExtract == [field |-> "none", selector |-> "", page |-> <<>>,
              out |-> "", done |-> FALSE]

\* The background goroutines RunSiteTask starts for the site.
Jobs == 1..MaxSiteRuns

\* No second StartWithTask call made.
NoCall2 == [pc |-> "idle", midRun |-> FALSE, result |-> "none"]

\* A Spider made by NewSpider, on which StartWithTask can be called.
InitCrawl(cfgs, tasks, stores) == InitRun(cfgs, tasks, stores, {"idle"})

\* No text cleaning under way.
NoClean == [fn |-> "none", text |-> <<>>, out |-> <<>>, done |-> FALSE]

\* What lies around the crawl, when a specification is not about it.
InitEnv ==
    /\ store \in NewStorage({"file"})
    /\ ex = NoExtract
    /\ clean = NoClean
    /\ call2 = NoCall2
    /\ site = "ready"
    /\ jobs = [g \in Jobs |-> "none"]

InitStore(cfgs, tasks, stores) == InitCrawl(cfgs, tasks, stores) /\ InitEnv

InitWith(cfgs, tasks) == InitStore(cfgs, tasks, {"ok"})

\* ---------------------------------------------------------------- actions
\* spider.go:41-80: lock, refuse when running, build and limit the
\* collector, mark the spider running.
StartBegin ==
    /\ pc = "idle"
    /\ mu = "free"
    /\ IF running
       THEN /\ pc' = "done"
            /\ result' = "error"
            /\ UNCHANGED <<running, limit, mu>>
       ELSE /\ mu' = "start"
            /\ result' = result
            /\ limit' = [Parallelism |-> LimitParallelism(config, task),
                         Delay |-> LimitDelay(config, task)]
            /\ running' = TRUE
            /\ pc' = "visiting"
    /\ UNCHANGED <<config, task, storage, apiVars, envVars, nextURL, visited, wg,
                   slots, req, age, items, stop, stopApplied, nilHandler>>

\* spider.go:84-87: one turn of the loop, c.Visit(url); its error is dropped.
\* An admitted URL is marked visited and gets a fetch goroutine.
VisitNext ==
    /\ pc = "visiting"
    /\ nextURL <= Len(task.StartURLs)
    /\ LET url == task.StartURLs[nextURL] IN
       IF RequestAllowed(url, VisitDepth, TRUE)
       THEN /\ visited' = visited \cup {url}
            /\ wg' = wg + 1
            /\ req' = [req EXCEPT ![nextURL] =
                          [NoReq EXCEPT !.url = url, !.depth = VisitDepth,
                                        !.phase = "queued"]]
       ELSE UNCHANGED <<visited, wg, req>>
    /\ nextURL' = nextURL + 1
    /\ UNCHANGED <<config, task, storage, apiVars, envVars, running, mu, pc, limit, slots, age, items,
                   stop, stopApplied, nilHandler, result>>

\* spider.go:88-90: the loop is over, the call enters c.Wait().
VisitEnd ==
    /\ pc = "visiting"
    /\ nextURL > Len(task.StartURLs)
    /\ pc' = "waiting"
    /\ UNCHANGED <<config, task, storage, apiVars, envVars, running, mu, nextURL, limit, visited, wg,
                   slots, req, age, items, stop, stopApplied, nilHandler, result>>

\* spider.go:90-94: c.Wait() returns, running is reset, the lock released.
WaitReturn ==
    /\ pc = "waiting"
    /\ WaitReturns(wg)
    /\ running' = FALSE
    /\ mu' = "free"
    /\ pc' = "done"
    /\ result' = "nil"
    /\ UNCHANGED <<config, task, storage, apiVars, envVars, nextURL, limit, visited,
                   wg, slots, req, age, items, stop, stopApplied, nilHandler>>

\* A fetch goroutine takes a place of the wait channel and sends the request.
Dispatch(id) ==
    /\ req[id].phase = "queued"
    /\ slots < WaitChanSize(limit.Parallelism)
    /\ slots' = slots + 1
    /\ req' = [req EXCEPT ![id].phase = "inflight",
                          ![id].attempts = Min(@ + 1, AttemptCap)]
    /\ age' = [age EXCEPT ![Hostname(req[id].url)] = 0]
    /\ UNCHANGED <<config, task, storage, apiVars, envVars, running, mu, pc, nextURL, limit, visited,
                   wg, items, stop, stopApplied, nilHandler, result>>

\* The HTTP exchange ends; the goroutine sleeps the rule's Delay, still
\* holding its place.
FetchComplete(id, outcome) ==
    /\ req[id].phase = "inflight"
    /\ req' = [req EXCEPT ![id].phase = "delay", ![id].outcome = outcome,
                          ![id].timer = limit.Delay]
    /\ UNCHANGED <<config, task, storage, apiVars, envVars, running, mu, pc, nextURL, limit, visited,
                   wg, slots, age, items, stop, stopApplied, nilHandler, result>>

\* The requests a page handler makes for the links it follows
\* (e.Request.Visit): checked like any Visit, one level deeper.
Admitted(links, depth) == {l \in links : RequestAllowed(l, depth, TRUE)}

\* The Delay sleep is over: the place is given back and the callbacks run.
\* Success: OnResponse, OnHTML (processPage: extract, Save), OnScraped.
\* Failure: OnError (spider.go:164-181) up to its time.Sleep, or to its end.
FetchReturn(id) ==
    /\ req[id].phase = "delay"
    /\ req[id].timer = 0
    /\ slots' = slots - 1
    /\ IF req[id].outcome = "ok"
       THEN \E m \in MatchCounts(ItemSelector(task)) :
            \E f \in SaveFailures(storage, m) :
            LET url == req[id].url
                new == IF m > 0
                       THEN Admitted(FollowedLinks(url), req[id].depth + 1)
                       ELSE {}
            IN  /\ items' = IF m > 0
                            THEN items \cup {[URL |-> url,
                                              Links |-> ExtractLinks(url)]}
                            ELSE items
                /\ visited' = visited \cup new
                /\ wg' = wg + Cardinality(new) - 1
                /\ req' = [r \in ReqIds |->
                             IF r = id
                             THEN [req[id] EXCEPT !.phase = "scraped",
                                       !.outcome = "none",
                                       !.saves = @ + (m - f) * SaveCalls(TRUE)
                                                   + f * SaveCalls(FALSE),
                                       !.saveErr = f > 0]
                             ELSE IF \E l \in new : r = LinkId(l)
                             THEN [NoReq EXCEPT !.phase = "queued",
                                     !.url = URLList[r - Len(task.StartURLs)],
                                                !.depth = req[id].depth + 1]
                             ELSE req[r]]
       ELSE /\ IF ShouldRetry(req[id].hdr, config.Retries)
               THEN /\ req' = [req EXCEPT ![id].phase = "backoff",
                                 ![id].outcome = "none",
                                 ![id].hdr = NewCount(req[id].hdr),
                                 ![id].timer = RetrySleepMs]
                    /\ wg' = wg
               ELSE /\ req' = [req EXCEPT ![id].phase = "failed",
                                           ![id].outcome = "none"]
                    /\ wg' = wg - 1
            /\ UNCHANGED <<items, visited>>
    /\ UNCHANGED <<config, task, storage, apiVars, envVars, running, mu, pc, nextURL, limit, age, stop,
                   stopApplied, nilHandler, result>>

\* spider.go:178-179: the handler's sleep is over; r.Request.Retry() starts a
\* new fetch goroutine for the same request (no revisit check), then the
\* handler and the failed fetch return.
Retry(id) ==
    /\ req[id].phase = "backoff"
    /\ req[id].timer = 0
    /\ IF RequestAllowed(req[id].url, req[id].depth, FALSE)
       THEN /\ req' = [req EXCEPT ![id].phase = "queued"]
            /\ wg' = (wg + 1) - 1
       ELSE /\ req' = [req EXCEPT ![id].phase = "failed"]
            /\ wg' = wg - 1
    /\ UNCHANGED <<config, task, storage, apiVars, envVars, running, mu, pc, nextURL, limit, visited,
                   slots, age, items, stop, stopApplied, nilHandler, result>>

\* TickMs milliseconds pass: every sleep gets shorter, every host's last
\* dispatch older (counted up to the rule's Delay, what the model compares).
Tick ==
    /\ \/ \E id \in ReqIds : req[id].timer > 0
       \/ \E h \in Hosts : age[h] >= 0 /\ age[h] < limit.Delay
    /\ req' = [id \in ReqIds |->
                 [req[id] EXCEPT !.timer = Max(0, @ - TickMs)]]
    /\ age' = [h \in Hosts |->
                 IF age[h] < 0 THEN age[h]
                 ELSE Min(age[h] + TickMs, Max(limit.Delay, age[h]))]
    /\ UNCHANGED <<config, task, storage, apiVars, envVars, running, mu, pc, nextURL, limit, visited,
                   wg, slots, items, stop, stopApplied, nilHandler, result>>

\* Some caller invokes Stop (spider.go:98); the call waits for s.mu.
StopCall ==
    /\ stop.pc = "idle"
    /\ stop' = [pc |-> "locking", midRun |-> running]
    /\ UNCHANGED <<config, task, storage, apiVars, envVars, running, mu, pc, nextURL, limit, visited,
                   wg, slots, req, age, items, stopApplied, nilHandler, result>>

\* spider.go:99-114: Stop gets the lock, does its work and returns.
StopRun ==
    /\ stop.pc = "locking"
    /\ mu = "free"
    /\ IF ~running
       THEN UNCHANGED <<running, stopApplied, nilHandler, result>>
       ELSE /\ running' = FALSE
            /\ stopApplied' = TRUE
            /\ nilHandler' = TRUE
    /\ stop' = [stop EXCEPT !.pc = "returned"]
    /\ UNCHANGED <<config, task, storage, apiVars, envVars, mu, pc, nextURL, limit,
                   visited, wg, slots, req, age, items, result>>

Next ==
    \/ StartBegin
    \/ VisitNext
    \/ VisitEnd
    \/ WaitReturn
    \/ \E id \in ReqIds : Dispatch(id)
    \/ \E id \in ReqIds, o \in Outcomes : FetchComplete(id, o)
    \/ \E id \in ReqIds : FetchReturn(id)
    \/ \E id \in ReqIds : Retry(id)
    \/ Tick
    \/ StopCall
    \/ StopRun

\* ------------------------------------------------- a second StartWithTask
\* Another goroutine calls StartWithTask on the same Spider after the first
\* call began (spider.go:41-42); the call waits for s.mu.
Start2Call ==
    /\ call2.pc = "idle"
    /\ pc # "idle"
    /\ call2' = [call2 EXCEPT !.pc = "locking", !.midRun = (mu = "start")]
    /\ UNCHANGED <<config, task, running, mu, pc, nextURL, limit, visited, wg,
                   slots, req, age, items, stop, stopApplied, nilHandler,
                   result, storage, apiVars, store, ex, clean, site, jobs>>

\* spider.go:42-80 in the second call: it gets the lock, returns the error
\* when running is set, and otherwise makes a new collector, limits it and
\* marks the spider running.
Start2Begin ==
    /\ call2.pc = "locking"
    /\ mu = "free"
    /\ IF running
       THEN /\ call2' = [call2 EXCEPT !.pc = "returned", !.result = "error"]
            /\ UNCHANGED <<running, mu, pc, nextURL, limit, visited, wg,
                           slots, req, age>>
       ELSE /\ call2' = [call2 EXCEPT !.pc = "running"]
            /\ mu' = "start"
            /\ running' = TRUE
            /\ pc' = "visiting"
            /\ nextURL' = 1
            /\ limit' = [Parallelism |-> LimitParallelism(config, task),
                         Delay |-> LimitDelay(config, task)]
            /\ visited' = {}
            /\ wg' = 0
            /\ slots' = 0
            /\ req' = [id \in ReqIds |-> NoReq]
            /\ age' = [h \in Hosts |-> -1]
    /\ UNCHANGED <<config, task, items, stop, stopApplied, nilHandler,
                   result, storage, apiVars, store, ex, clean, site, jobs>>

\* spider.go:94 in the second call: its run is over, it returns nil.
Start2Return ==
    /\ call2.pc = "running"
    /\ pc = "done"
    /\ call2' = [call2 EXCEPT !.pc = "returned", !.result = "nil"]
    /\ UNCHANGED <<config, task, running, mu, pc, nextURL, limit, visited, wg,
                   slots, req, age, items, stop, stopApplied, nilHandler,
                   result, storage, apiVars, store, ex, clean, site, jobs>>

NextTwoCalls ==
    \/ Next
    \/ Start2Call
    \/ Start2Begin
    \/ Start2Return

\* ------------------------------------------------------------ RunSiteTask
\* Every background goroutine has a store and a Spider of its own.  The run
\* of the Spider of goroutine 1 is the run modelled above (pc = "nospider"
\* until the Spider is made); of the other runs only begin and end are.
\* site_controller.go:361-385, 424: the request is answered with 202 and
\* the goroutine started.
RunSiteTask(g) ==
    /\ jobs[g] = "none"
    /\ jobs' = [jobs EXCEPT ![g] = "started"]
    /\ UNCHANGED <<config, task, running, mu, pc, nextURL, limit, visited, wg,
                   slots, req, age, items, stop, stopApplied, nilHandler,
                   result, storage, apiVars, store, ex, clean, call2, site>>

\* site_controller.go:387-392: storage.NewStorage; on its error the
\* goroutine returns, otherwise store.Close is deferred.
JobNewStorage(g, ok) ==
    /\ jobs[g] = "started"
    /\ jobs' = [jobs EXCEPT ![g] = IF ok THEN "created" ELSE "ended"]
    /\ UNCHANGED <<config, task, running, mu, pc, nextURL, limit, visited, wg,
                   slots, req, age, items, stop, stopApplied, nilHandler,
                   result, storage, apiVars, store, ex, clean, call2, site>>

\* site_controller.go:394-414: NewSpider, UPDATE sites SET status =
\* 'running', the task is built and StartWithTask called.
JobSetRunning(g) ==
    /\ jobs[g] = "created"
    /\ site' = "running"
    /\ jobs' = [jobs EXCEPT ![g] = "crawling"]
    /\ pc' = IF g = 1 THEN "idle" ELSE pc
    /\ UNCHANGED <<config, task, running, mu, nextURL, limit, visited, wg,
                   slots, req, age, items, stop, stopApplied, nilHandler,
                   result, storage, apiVars, store, ex, clean, call2>>

\* site_controller.go:414-418: StartWithTask has returned.
JobCrawlEnd(g) ==
    /\ jobs[g] = "crawling"
    /\ g = 1 => pc = "done"
    /\ jobs' = [jobs EXCEPT ![g] = "crawled"]
    /\ UNCHANGED <<config, task, running, mu, pc, nextURL, limit, visited, wg,
                   slots, req, age, items, stop, stopApplied, nilHandler,
                   result, storage, apiVars, store, ex, clean, call2, site>>

\* site_controller.go:421: UPDATE sites SET status = 'ready'.
JobSetReady(g) ==
    /\ jobs[g] = "crawled"
    /\ site' = "ready"
    /\ jobs' = [jobs EXCEPT ![g] = "closing"]
    /\ UNCHANGED <<config, task, running, mu, pc, nextURL, limit, visited, wg,
                   slots, req, age, items, stop, stopApplied, nilHandler,
                   result, storage, apiVars, store, ex, clean, call2>>

\* site_controller.go:392, 422: the goroutine returns, the deferred
\* store.Close() runs.
JobClose(g) ==
    /\ jobs[g] = "closing"
    /\ jobs' = [jobs EXCEPT ![g] = "ended"]
    /\ UNCHANGED <<config, task, running, mu, pc, nextURL, limit, visited, wg,
                   slots, req, age, items, stop, stopApplied, nilHandler,
                   result, storage, apiVars, store, ex, clean, call2, site>>

NextSite ==
    \/ Next
    \/ \E g \in Jobs : RunSiteTask(g)
    \/ \E g \in Jobs, ok \in BOOLEAN : JobNewStorage(g, ok)
    \/ \E g \in Jobs : JobSetRunning(g)
    \/ \E g \in Jobs : JobCrawlEnd(g)
    \/ \E g \in Jobs : JobSetReady(g)
    \/ \E g \in Jobs : JobClose(g)

\* ---------------------------------------------------------- the extraction
\* The fields extractData fills from a selector's text.
Fields == {"title", "content", "description", "author"}

\* The selector a task may give for a field.
CustomSelector == "x.custom"

\* parser.go:87-96, 117-121 and 130, 142-149, 188-193: the fixed selectors
\* listed for each field, in their order.
FallbackSelectors(field) ==
    IF field = "title"
    THEN <<"title", "h1", ".title", ".headline", "h1.title", "h1.headline",
           "meta[property='og:title']", "meta[name='twitter:title']">>
    ELSE IF field = "content"
    THEN <<".content", ".article-content", ".post-content", ".entry-content",
           ".main-content", "article", ".article-body", ".post-body", "main",
           "body">>
    ELSE IF field = "description"
    THEN <<"meta[name='description']", "meta[property='og:description']",
           "meta[name='twitter:description']", ".description", ".summary",
           ".excerpt">>
    ELSE <<".author", ".by-author", ".post-author", ".article-author",
           "meta[name='author']", "meta[property='article:author']",
           ".byline", ".writer">>

\* spider.go:217, 223: the one selector extractData reads when the task
\* gives none for the field; description and author have none ("").
DefaultSelector(field) ==
    IF field = "title" THEN "title"
    ELSE IF field = "content" THEN "body"
    ELSE ""

\* The text is "" (no match), " " (blank) or, to tell the sources apart,
\* the selector itself.
TrimSpace(text) == IF text = " " THEN "" ELSE text

Range(seq) == {seq[k] : k \in 1..Len(seq)}

\* The pages: what e.ChildText / e.ChildAttr return for each selector.  The
\* selectors in yielding give their text; of the others, those extractData
\* reads may give a blank text.
PageOf(sels, yielding, blank) ==
    [sl \in sels |-> IF sl \in yielding THEN sl
                     ELSE IF sl \in blank THEN " "
                     ELSE ""]

Pages(field) ==
    LET sels == Range(FallbackSelectors(field)) \cup {CustomSelector}
        read == sels \cap {CustomSelector, DefaultSelector(field)}
    IN  {PageOf(sels, y, b) : y \in SUBSET sels, b \in SUBSET read}

\* spider.go:213-236: the value extractData gives a field.
extractData(field, selector, page) ==
    IF selector # "" THEN TrimSpace(page[selector])
    ELSE IF DefaultSelector(field) # ""
    THEN TrimSpace(page[DefaultSelector(field)])
    ELSE ""

Extractions ==
    UNION {[field : {f}, selector : {"", CustomSelector}, page : Pages(f),
            out : {""}, done : {FALSE}] : f \in Fields}

\* processPage calls extractData and hands the item to Save.
ExtractField ==
    /\ ex.field # "none"
    /\ ~ex.done
    /\ ex' = [ex EXCEPT !.out = extractData(ex.field, ex.selector, ex.page),
                        !.done = TRUE]
    /\ UNCHANGED <<config, task, running, mu, pc, nextURL, limit, visited, wg,
                   slots, req, age, items, stop, stopApplied, nilHandler,
                   result, storage, apiVars, store, clean, call2, site,
                   jobs>>

NextExtract == ExtractField

\* ------------------------------------------------------ the text cleaning
\* A text is the sequence of its characters, drawn from: a letter, the
\* space, the line feed, the control character 0x01, and the two brackets.
Letter == "a"
Space == " "
LineFeed == "\n"
Control01 == "0x01"
Chars == {Letter, Space, LineFeed, Control01, "<", ">"}

\* The class \s of Go's regexp, and what strings.TrimSpace trims.
IsSpace(ch) == ch \in {Space, LineFeed}

\* The class [\x00-\x1F\x7F-\x9F] of RemoveSpecialChars (logger.go:338).
IsControl(ch) == ch \in {LineFeed, Control01}

\* logger.go:322-326: every leftmost match of <[^>]*> is removed.
RECURSIVE RemoveHTMLTags(_)
RemoveHTMLTags(text) ==
    IF text = <<>> THEN <<>>
    ELSE IF Head(text) = "<" /\ \E k \in 2..Len(text) : text[k] = ">"
    THEN LET close == CHOOSE k \in 2..Len(text) :
                         /\ text[k] = ">"
                         /\ \A j \in 2..(k - 1) : text[j] # ">"
         IN  RemoveHTMLTags(SubSeq(text, close + 1, Len(text)))
    ELSE <<Head(text)>> \o RemoveHTMLTags(Tail(text))

\* logger.go:329-333: every run of \s+ becomes one space.
RECURSIVE RemoveExtraWhitespace(_)
RemoveExtraWhitespace(text) ==
    IF text = <<>> THEN <<>>
    ELSE IF IsSpace(Head(text))
    THEN IF Len(text) >= 2 /\ IsSpace(text[2])
         THEN RemoveExtraWhitespace(Tail(text))
         ELSE <<Space>> \o RemoveExtraWhitespace(Tail(text))
    ELSE <<Head(text)>> \o RemoveExtraWhitespace(Tail(text))

\* logger.go:336-340: the control characters are removed.
RemoveSpecialChars(text) == SelectSeq(text, LAMBDA ch : ~IsControl(ch))

\* strings.TrimSpace on a sequence of characters.
RECURSIVE TrimLeft(_)
TrimLeft(text) ==
    IF text # <<>> /\ IsSpace(Head(text)) THEN TrimLeft(Tail(text)) ELSE text

RECURSIVE TrimRight(_)
TrimRight(text) ==
    IF text # <<>> /\ IsSpace(text[Len(text)])
    THEN TrimRight(SubSeq(text, 1, Len(text) - 1))
    ELSE text

TrimSpaceChars(text) == TrimRight(TrimLeft(text))

\* logger.go:308-319: StringHelper.CleanText.
CleanText(text) ==
    TrimSpaceChars(
        RemoveSpecialChars(RemoveExtraWhitespace(RemoveHTMLTags(text))))

\* parser.go:309-314: DefaultParser.cleanText.
cleanText(text) == TrimSpaceChars(RemoveExtraWhitespace(text))

Clean(fn, text) == IF fn = "CleanText" THEN CleanText(text) ELSE cleanText(text)

Texts == UNION {[1..n -> Chars] : n \in 0..MaxTextLen}

\* One call of the cleaning function on the text.
CleanCall ==
    /\ clean.fn # "none"
    /\ ~clean.done
    /\ clean' = [clean EXCEPT !.out = Clean(clean.fn, clean.text),
                              !.done = TRUE]
    /\ UNCHANGED <<config, task, running, mu, pc, nextURL, limit, visited, wg,
                   slots, req, age, items, stop, stopApplied, nilHandler,
                   result, storage, apiVars, store, ex, call2, site, jobs>>

NextClean == CleanCall

\* ------------------------------------------------------------- the stores
WithoutURL(rows, url) == SelectSeq(rows, LAMBDA r : r.URL # url)

HasURL(rows, url) == \E k \in 1..Len(rows) : rows[k].URL = url

\* The records after one item is written.
\* file (storage.go:89-111) and excel (excel.go:126-161): one more record.
\* sqlite3 (database.go:127-130): INSERT OR REPLACE, the record of the same
\* url is deleted and the new one inserted.
\* mysql (database.go:132-148): ON DUPLICATE KEY UPDATE, the record of the
\* same url is overwritten where it is.
WriteItem(type, rows, item) ==
    IF type = "sqlite3" THEN WithoutURL(rows, item.URL) \o <<item>>
    ELSE IF type = "mysql" /\ HasURL(rows, item.URL)
    THEN [k \in 1..Len(rows) |->
             IF rows[k].URL = item.URL THEN item ELSE rows[k]]
    ELSE rows \o <<item>>

RECURSIVE WriteItems(_, _, _)
WriteItems(type, rows, batch) ==
    IF batch = <<>> THEN rows
    ELSE WriteItems(type, WriteItem(type, rows, Head(batch)), Tail(batch))

RECURSIVE LastOf(_, _)
LastOf(last, batch) ==
    IF batch = <<>> THEN last
    ELSE LastOf([last EXCEPT ![Head(batch).URL] = Head(batch)], Tail(batch))

\* Save(item): the write succeeds (ok) or fails with an error.
StoreSave(item, ok) ==
    /\ Len(store.rows) < MaxStoreRows
    /\ store' = [store EXCEPT
                    !.rows = IF ok THEN WriteItem(store.type, @, item) ELSE @,
                    !.last = IF ok THEN [@ EXCEPT ![item.URL] = item] ELSE @,
                    !.op = "Save", !.err = ~ok]
    /\ UNCHANGED <<config, task, running, mu, pc, nextURL, limit, visited, wg,
                   slots, req, age, items, stop, stopApplied, nilHandler,
                   result, storage, apiVars, ex, clean, call2, site, jobs>>

\* Where a SaveBatch call can fail: 0 = nowhere, k = at the write of item k,
\* Len(batch) + 1 = at tx.Commit (database.go:259), which only the database
\* stores have.
BatchFailures(type, batch) ==
    0..(IF type \in {"sqlite3", "mysql"} THEN Len(batch) + 1 ELSE Len(batch))

\* The items SaveBatch has persisted when it returns.
\* database (database.go:184-264): one transaction, rolled back on any error.
\* file (storage.go:114-121), excel (excel.go:164-171): a loop of Save calls
\* that returns at the first error; what was saved before stays.
BatchPersisted(type, batch, failAt) ==
    IF failAt = 0 THEN batch
    ELSE IF type \in {"sqlite3", "mysql"} THEN <<>>
    ELSE SubSeq(batch, 1, failAt - 1)

StoreSaveBatch(batch, failAt) ==
    /\ Len(store.rows) + Len(batch) <= MaxStoreRows
    /\ failAt \in BatchFailures(store.type, batch)
    /\ LET done == BatchPersisted(store.type, batch, failAt) IN
       store' = [store EXCEPT !.rows = WriteItems(store.type, @, done),
                              !.last = LastOf(@, done),
                              !.op = "SaveBatch", !.err = failAt # 0]
    /\ UNCHANGED <<config, task, running, mu, pc, nextURL, limit, visited, wg,
                   slots, req, age, items, stop, stopApplied, nilHandler,
                   result, storage, apiVars, ex, clean, call2, site, jobs>>

Batches == UNION {[1..n -> StoreItems] : n \in 0..MaxBatch}

NextStore ==
    \/ \E item \in StoreItems, ok \in BOOLEAN : StoreSave(item, ok)
    \/ \E batch \in Batches, failAt \in 0..(MaxBatch + 1) :
          StoreSaveBatch(batch, failAt)

\* ----------------------------------------------------------- the task API
\* A client sends PUT or DELETE /tasks/:id, POST /tasks/:id/start or
\* /tasks/:id/stop; gin runs every request in a goroutine of its own.  An
\* update carries the new name in its body (database.go:1341-1345).
TaskRequest(c, op) ==
    /\ api[c].op = "none"
    /\ \E name \in (IF op = "UpdateTask" THEN TaskNames ELSE {""}) :
          api' = [api EXCEPT ![c] = [op |-> op, status |-> "none",
                                     name |-> name]]
    /\ UNCHANGED <<envVars, config, task, running, mu, pc, nextURL, limit, visited, wg,
                   slots, req, age, items, stop, stopApplied, nilHandler,
                   result, storage, row, mtask>>

\* database.go:1349, 1389, 1421 and 1456: SELECT status FROM tasks WHERE
\* id = ?, which finds no row ("absent", answered with 404) once the row is
\* deleted.
TaskSelect(c) ==
    /\ api[c].op # "none"
    /\ api[c].status = "none"
    /\ api' = [api EXCEPT ![c].status =
                   IF row.exists THEN row.status ELSE "absent"]
    /\ UNCHANGED <<envVars, config, task, running, mu, pc, nextURL, limit, visited, wg,
                   slots, req, age, items, stop, stopApplied, nilHandler,
                   result, storage, row, mtask>>

\* database.go:1426-1443: StartTask after its SELECT: 400 when the status
\* read was running, otherwise UPDATE tasks SET status='running'.
StartTask(c) ==
    /\ api[c].op = "StartTask"
    /\ api[c].status # "none"
    /\ IF api[c].status \in {"running", "absent"} \/ ~row.exists
       THEN row' = row
       ELSE row' = [row EXCEPT !.status = "running"]
    /\ api' = [api EXCEPT ![c] = NoCall]
    /\ UNCHANGED <<envVars, config, task, running, mu, pc, nextURL, limit, visited, wg,
                   slots, req, age, items, stop, stopApplied, nilHandler,
                   result, storage, mtask>>

\* database.go:1461-1477: StopTask after its SELECT: 400 unless the status
\* read was running, otherwise UPDATE tasks SET status='stopped'.
StopTask(c) ==
    /\ api[c].op = "StopTask"
    /\ api[c].status # "none"
    /\ IF api[c].status # "running" \/ ~row.exists
       THEN row' = row
       ELSE row' = [row EXCEPT !.status = "stopped"]
    /\ api' = [api EXCEPT ![c] = NoCall]
    /\ UNCHANGED <<envVars, config, task, running, mu, pc, nextURL, limit, visited, wg,
                   slots, req, age, items, stop, stopApplied, nilHandler,
                   result, storage, mtask>>

\* database.go:1354-1376: UpdateTask after its SELECT: 404 when there was
\* no row, 400 when the status read was running, otherwise UPDATE tasks SET
\* name=?, ... WHERE id=?, which changes nothing when the row is gone.
UpdateTask(c) ==
    /\ api[c].op = "UpdateTask"
    /\ api[c].status # "none"
    /\ IF api[c].status \in {"running", "absent"} \/ ~row.exists
       THEN row' = row
       ELSE row' = [row EXCEPT !.name = api[c].name]
    /\ api' = [api EXCEPT ![c] = NoCall]
    /\ UNCHANGED <<envVars, config, task, running, mu, pc, nextURL, limit, visited, wg,
                   slots, req, age, items, stop, stopApplied, nilHandler,
                   result, storage, mtask>>

\* database.go:1394-1408: DeleteTask after its SELECT: 404 when there was
\* no row, 400 when the status read was running, otherwise DELETE FROM tasks
\* WHERE id = ?.
DeleteTask(c) ==
    /\ api[c].op = "DeleteTask"
    /\ api[c].status # "none"
    /\ IF api[c].status \in {"running", "absent"} \/ ~row.exists
       THEN row' = row
       ELSE row' = [row EXCEPT !.exists = FALSE]
    /\ api' = [api EXCEPT ![c] = NoCall]
    /\ UNCHANGED <<envVars, config, task, running, mu, pc, nextURL, limit, visited, wg,
                   slots, req, age, items, stop, stopApplied, nilHandler,
                   result, storage, mtask>>

\* item.go:180-195: the methods of models.CrawlTask that set its Status.
CrawlTask_Start ==
    /\ mtask' = "running"
    /\ UNCHANGED <<envVars, config, task, running, mu, pc, nextURL, limit, visited, wg,
                   slots, req, age, items, stop, stopApplied, nilHandler,
                   result, storage, row, api>>

CrawlTask_Complete ==
    /\ mtask' = "completed"
    /\ UNCHANGED <<envVars, config, task, running, mu, pc, nextURL, limit, visited, wg,
                   slots, req, age, items, stop, stopApplied, nilHandler,
                   result, storage, row, api>>

CrawlTask_Fail ==
    /\ mtask' = "failed"
    /\ UNCHANGED <<envVars, config, task, running, mu, pc, nextURL, limit, visited, wg,
                   slots, req, age, items, stop, stopApplied, nilHandler,
                   result, storage, row, api>>

NextApi ==
    \/ \E c \in ApiClients, op \in TaskOps : TaskRequest(c, op)
    \/ \E c \in ApiClients : TaskSelect(c)
    \/ \E c \in ApiClients : UpdateTask(c)
    \/ \E c \in ApiClients : DeleteTask(c)
    \/ \E c \in ApiClients : StartTask(c)
    \/ \E c \in ApiClients : StopTask(c)
    \/ CrawlTask_Start
    \/ CrawlTask_Complete
    \/ CrawlTask_Fail

\* --------------------------------------------------------- specifications
\* The run of one task under the default configuration: every StartURLs
\* list, every MaxDepth and MaxPages; no task override of the limits.
MainConfigs ==
    {c \in Configs : c.Concurrent = MaxConcurrent /\ c.Retries = 1}

MainTasks ==
    TasksWith({BaseURL_a}, StartURLLists,
              RulesWith(0..MaxMaxDepth, 0..MaxMaxPages, {0}, {0}, {{}}, {{}}))

Init == InitWith(MainConfigs, MainTasks)

Spec == Init /\ [][Next]_vars

\* The limits: every configured and every task-level Concurrent and Delay,
\* for a task with two pages of the base domain.
LimitConfigs == {c \in Configs : c.Retries = 1}

LimitTasks ==
    TasksWith({BaseURL_a}, {<<URL_a1, URL_a2>>},
              RulesWith({0}, {0}, 0..MaxConcurrent, DelayChoices, {{}}, {{}}))

InitLimit == InitWith(LimitConfigs, LimitTasks)

SpecLimit == InitLimit /\ [][Next]_vars

\* The retries: every configured retry limit, for a task with one page.
RetryConfigs == {c \in Configs : c.Concurrent = 1}

RetryTasks ==
    TasksWith({BaseURL_a}, {<<URL_a1>>},
              RulesWith({0}, {0}, {0}, {0}, {{}}, {{}}))

InitRetry == InitWith(RetryConfigs, RetryTasks)

SpecRetry == InitRetry /\ [][Next]_vars

\* Fair scheduling: the StartWithTask call and every goroutine that can take
\* a step eventually takes it, every sleep and every fetch ends.  Nobody is
\* bound to call Stop.
AllReqIds == 1..(MaxStartURLs + Len(URLList))

Fairness ==
    /\ WF_vars(StartBegin)
    /\ WF_vars(VisitNext)
    /\ WF_vars(VisitEnd)
    /\ WF_vars(WaitReturn)
    /\ WF_vars(Tick)
    /\ WF_vars(StopRun)
    /\ \A id \in AllReqIds :
          /\ WF_vars(id \in ReqIds /\ Dispatch(id))
          /\ WF_vars(id \in ReqIds /\ \E o \in Outcomes : FetchComplete(id, o))
          /\ WF_vars(id \in ReqIds /\ FetchReturn(id))
          /\ WF_vars(id \in ReqIds /\ Retry(id))

FairSpecRetry == InitRetry /\ [][Next]_vars /\ Fairness

\* The inputs of StartWithTask: every BaseURL (the empty one too), every
\* StartURLs list (the empty one too), every allowed and forbidden domain set.
DomainTasks ==
    TasksWith(BaseURLSet, StartURLLists,
              RulesWith({0}, {0}, {0}, {0}, DomainSets, DomainSets))

InitDomain == InitWith(MainConfigs, DomainTasks)

SpecDomain == InitDomain /\ [][Next]_vars

\* Two pages, one fetch at a time, under fair scheduling.
PagesTasks ==
    TasksWith({BaseURL_a}, {<<URL_a1, URL_a2>>},
              RulesWith({0}, {0}, {0}, {0}, {{}}, {{}}))

\* The lower half of the retry limits.
PagesConfigs == {c \in RetryConfigs : c.Retries <= MaxRetries \div 2}

InitPages == InitWith(PagesConfigs, PagesTasks)

FairSpecPages == InitPages /\ [][Next]_vars /\ Fairness

\* Two pages and a store whose Save may fail, under fair scheduling.
InitStoreFlaky == InitStore(MainConfigs, PagesTasks, {"flaky"})

FairSpecStore == InitStoreFlaky /\ [][Next]_vars /\ Fairness

\* A task with an item selector, for every StartURLs list.
ItemTasks ==
    TasksSel({BaseURL_a}, StartURLLists,
             RulesWith({0}, {0}, {0}, {0}, {{}}, {{}}), ItemSelectors \ {""})

InitItems == InitWith(MainConfigs, ItemTasks)

SpecItems == InitItems /\ [][Next]_vars

\* Every kind of store, under every sequence of Save and SaveBatch calls.
InitStorage ==
    /\ InitCrawl(MainConfigs, RetryTasks, {"ok"})
    /\ store \in NewStorage(StorageTypes)
    /\ ex = NoExtract
    /\ clean = NoClean
    /\ call2 = NoCall2
    /\ site = "ready"
    /\ jobs = [g \in Jobs |-> "none"]

SpecStorage == InitStorage /\ [][NextStore]_vars

\* The extraction of one field, for every field, selector and page.
InitExtract ==
    /\ InitCrawl(MainConfigs, RetryTasks, {"ok"})
    /\ store \in NewStorage({"file"})
    /\ ex \in Extractions
    /\ clean = NoClean
    /\ call2 = NoCall2
    /\ site = "ready"
    /\ jobs = [g \in Jobs |-> "none"]

SpecExtract == InitExtract /\ [][NextExtract]_vars

\* The cleaning of every text by either function.
InitClean ==
    /\ InitCrawl(MainConfigs, RetryTasks, {"ok"})
    /\ store \in NewStorage({"file"})
    /\ ex = NoExtract
    /\ clean \in [fn : {"CleanText", "cleanText"}, text : Texts,
                   out : {<<>>}, done : {FALSE}]
    /\ call2 = NoCall2
    /\ site = "ready"
    /\ jobs = [g \in Jobs |-> "none"]

SpecClean == InitClean /\ [][NextClean]_vars

\* Two StartWithTask calls on one Spider, for a task with one page.
InitTwoCalls == InitWith(MainConfigs, RetryTasks)

SpecTwoCalls == InitTwoCalls /\ [][NextTwoCalls]_vars

\* The RunSiteTask requests for one site with one page.
InitSite ==
    /\ InitRun(MainConfigs, RetryTasks, {"ok"}, {"nospider"})
    /\ InitEnv

SpecSite == InitSite /\ [][NextSite]_vars

\* The task API and the models.CrawlTask object, on one task.
InitTaskApi == InitWith(MainConfigs, RetryTasks)

SpecTaskApi == InitTaskApi /\ [][NextApi]_vars

\* ------------------------------------------------------------- the claims
\* What the task and the configuration ask for, read off the inputs.
ExpectedParallelism ==
    IF task.Rules.Concurrent > 0 THEN task.Rules.Concurrent
    ELSE config.Concurrent

ExpectedDelay ==
    IF task.Rules.Delay > 0 THEN task.Rules.Delay ELSE config.Delay

InFlight(h) ==
    {id \in ReqIds : req[id].phase = "inflight" /\ Hostname(req[id].url) = h}

IsDispatch(id) == req[id].phase = "queued" /\ req'[id].phase = "inflight"

\* The number a string of digits denotes.
RECURSIVE StrValue(_)
StrValue(s) ==
    IF s = <<>> THEN 0 ELSE 10 * StrValue(SubSeq(s, 1, Len(s) - 1)) + s[Len(s)]

Processed == {id \in ReqIds : req[id].phase \in {"scraped", "failed"}}

\* The status of the run as the Spider shows it: stopped once Stop has reset
\* running (spider.go:107), completed once StartWithTask has logged the end
\* of the crawl and returned nil (spider.go:92-94).
RunStatus ==
    IF stopApplied THEN "stopped"
    ELSE IF pc = "done" THEN "completed"
    ELSE IF running THEN "running"
    ELSE "pending"

\* C1: in every state of a run, the requests in flight to one domain are at
\* most the effective parallelism (the task's Concurrent when > 0, else the
\* configured one), retries included.
C1_InFlightWithinParallelism ==
    \A h \in Hosts : Cardinality(InFlight(h)) <= ExpectedParallelism

\* C1 witness: the limit is reached by a retried request while another
\* request waits for a place.
C1_Witness ==
    \E i, j \in ReqIds :
        /\ req[i].phase = "inflight" /\ req[i].attempts >= 2
        /\ req[j].phase = "queued"
        /\ Cardinality(InFlight(Hostname(req[i].url))) = ExpectedParallelism

\* C2: any two consecutive dispatches to one domain are at least the
\* effective delay apart, for every parallelism and for retries too.
C2_DispatchesSpacedByDelay ==
    [][\A id \in ReqIds :
         IsDispatch(id) =>
            LET h == Hostname(req[id].url)
            IN  age[h] < 0 \/ age[h] >= ExpectedDelay]_vars

C4_RetriesBounded ==
    \A id \in ReqIds :
        /\ req[id].attempts <= config.Retries + 1
        /\ StrValue(req[id].hdr) <= config.Retries

\* C5: under fair scheduling the run eventually ends, whatever fails.
C5_RunEnds == <>(pc = "done" /\ ~running)

\* C6: once Stop has been requested during a run, no URL that was not yet
\* dispatched is dispatched any more.
C6_StopHaltsDispatch ==
    [][(stop.pc # "idle" /\ stop.midRun)
          => \A id \in ReqIds : ~IsDispatch(id)]_vars

\* C7: when a Stop call made during a run has returned, the run's status is
\* stopped, not completed.
C7_StoppedAfterStopReturns ==
    (stop.pc = "returned" /\ stop.midRun) => RunStatus = "stopped"

\* C8: StartWithTask finishes only when no start URL is pending, no retry is
\* pending or sleeping and no fetch is in flight.
C8_FinishOnlyWhenQuiescent ==
    pc = "done" =>
        /\ nextURL > Len(task.StartURLs)
        /\ \A id \in ReqIds : req[id].phase \notin Live
        /\ slots = 0

\* C8 witness: the run has finished and one of its requests was retried.
C8_Witness ==
    /\ pc = "done"
    /\ ~running
    /\ \E id \in ReqIds : req[id].attempts >= 2

\* C9: with MaxPages = M > 0 at most M pages are processed in a run.
C9_PageBudget ==
    task.Rules.MaxPages > 0 => Cardinality(Processed) <= task.Rules.MaxPages

\* C10: no URL is dispatched deeper than MaxDepth (a seed has depth 0), and
\* no link found on a page is ever dispatched: only seeds are.
C10_DepthWithinMaxDepth ==
    \A id \in ReqIds :
        req[id].phase # "none" =>
            /\ req[id].depth - VisitDepth <= task.Rules.MaxDepth
            /\ id \in SeedIds

\* C10 witness: one seed, MaxDepth 0; its page was fetched and saved with
\* the links found on it, and the run is over.
C10_Witness ==
    /\ Len(task.StartURLs) = 1
    /\ task.Rules.MaxDepth = 0
    /\ pc = "done"
    /\ req[1].phase = "scraped"
    /\ \E it \in items : it.URL = task.StartURLs[1] /\ it.Links # {}

\* The requests that were sent at least once.
Dispatched == {id \in ReqIds : req[id].attempts >= 1}

WasDispatched(url) == \E id \in Dispatched : req[id].url = url

\* C11: no URL whose domain is in the task's forbiddenDomains is ever
\* dispatched, the base domain included, and when allowedDomains is not
\* empty no URL of a domain outside it is dispatched.
C11_DomainRulesEnforced ==
    \A id \in Dispatched :
        /\ Hostname(req[id].url) \notin task.Rules.ForbiddenDomains
        /\ task.Rules.AllowedDomains # {}
              => Hostname(req[id].url) \in task.Rules.AllowedDomains

\* C12: with an empty allowedDomains the crawl is unrestricted: when the run
\* of a task with a BaseURL is over, every start URL whose domain is not
\* forbidden was dispatched, also one of a domain other than BaseURL's.
C12_UnrestrictedWhenAllowedEmpty ==
    (pc = "done" /\ result = "nil" /\ task.BaseURL # BaseURL_empty
        /\ task.Rules.AllowedDomains = {})
    => \A i \in SeedIds :
          Hostname(task.StartURLs[i]) \notin task.Rules.ForbiddenDomains
              => WasDispatched(task.StartURLs[i])

\* C13: StartWithTask given an empty StartURLs or an empty BaseURL returns
\* an error before any request is made, and the Spider is never running.
C13_EmptyInputRejected ==
    (task.StartURLs = <<>> \/ task.BaseURL = BaseURL_empty)
    => /\ ~running
       /\ Dispatched = {}
       /\ pc = "done" => result = "error"

\* The step in which the callbacks of request id run on its response.
Handled(id) == req[id].phase = "delay" /\ req'[id].phase # "delay"

\* C14: a request that failed permanently (a 4xx other than 429) is never
\* retried: it is not sent again and its retry count stays as it was.
C14_PermanentNeverRetried ==
    [][\A id \in ReqIds :
         (Handled(id) /\ req[id].outcome = "permanent")
            => /\ req'[id].phase = "failed"
               /\ req'[id].hdr = req[id].hdr]_vars

\* C15: for every retry limit R >= 1, a request that failed transiently is
\* sent again while its retry count is below R, the count growing by one
\* each time, and is given up only when the count has reached R.
C15_RetriedUntilLimit ==
    [][\A id \in ReqIds :
         (Handled(id) /\ req[id].outcome = "transient")
            => IF StrValue(req[id].hdr) < config.Retries
               THEN /\ req'[id].phase = "backoff"
                    /\ StrValue(req'[id].hdr) = StrValue(req[id].hdr) + 1
               ELSE req'[id].phase = "failed"]_vars

\* C16: a URL whose k-th fetch fails transiently, k <= maxRetries, is not
\* given up but fetched again, and a fetch that succeeds has its item saved
\* exactly once and the URL is not marked failed.
C16_TransientThenOkSaved ==
    [][\A id \in ReqIds :
         Handled(id)
            => /\ (req[id].outcome = "transient"
                     /\ req[id].attempts <= config.Retries)
                  => req'[id].phase = "backoff"
               /\ req[id].outcome = "ok"
                  => /\ req'[id].phase = "scraped"
                     /\ req'[id].saves = 1
                     /\ ~req'[id].saveErr]_vars

\* C17: whatever a single page does, the run goes on: every start URL is
\* dispatched, the run finishes and StartWithTask returns nil.
C17_RunSurvivesPageFailure ==
    <>(/\ pc = "done"
       /\ result = "nil"
       /\ \A i \in SeedIds : WasDispatched(task.StartURLs[i]))

\* The requests whose Save call returned an error.
SaveFailed == {id \in ReqIds : req[id].saveErr}

\* C18: when storage.Save returns an error for a page the error is only
\* logged: Save is not called again for the page, the page is not fetched
\* again, and the run goes on to finish with StartWithTask returning nil.
C18_SaveFailureOnlyLogged ==
    /\ [](\A id \in ReqIds : req[id].saves <= 1)
    /\ [][\A id \in SaveFailed : req'[id] = req[id]]_vars
    /\ (SaveFailed # {}) ~> (pc = "done" /\ result = "nil")

\* C18 witness: the run is over and returned nil; the Save of one page
\* failed, that page was fetched once, and another page was saved.
C18_Witness ==
    /\ pc = "done"
    /\ result = "nil"
    /\ \E i \in SaveFailed, j \in ReqIds \ SaveFailed :
          /\ req[i].phase = "scraped"
          /\ req[i].saves = 1
          /\ req[i].attempts = 1
          /\ req[j].phase = "scraped"
          /\ req[j].saves = 1

\* The status changes the specification allows.
StatusStep(from, to) ==
    \/ to = from
    \/ from = "pending" /\ to = "running"
    \/ from = "running" /\ to \in {"completed", "failed", "stopped"}

\* C19: the status of a task in the tasks table changes only from pending
\* to running and from running to completed, failed or stopped.
C19_StatusTransitions == [][StatusStep(row.status, row'.status)]_vars

\* The requests that ended in each way.
Succeeded == {id \in ReqIds : req[id].phase = "scraped"}

Failed == {id \in ReqIds : req[id].phase = "failed"}

\* C20: no update of the task's counters is lost: processed = success +
\* failed always, and when the run is over the counters GetTaskStatus reads
\* equal the numbers of URLs processed, fetched and failed.
C20_CountersMatchRun ==
    /\ row.processed_urls = row.success_urls + row.failed_urls
    /\ pc = "done" /\ result = "nil"
          => /\ row.processed_urls = Cardinality(Processed)
             /\ row.success_urls = Cardinality(Succeeded)
             /\ row.failed_urls = Cardinality(Failed)

\* C21: for every page fetched and parsed, exactly one item is made and
\* Save is called exactly once for it, however many elements of the page
\* (none, one, several) the task's item selector matches.
C21_OneSavePerPage ==
    \A id \in Succeeded : req[id].saves = 1

\* The records a store holds for a URL.
RecordsOf(url) == {k \in 1..Len(store.rows) : store.rows[k].URL = url}

\* C22: in every store NewStorage returns, after any successful Save calls
\* there is at most one record per URL and it is the item saved last for
\* that URL (so saving an item twice leaves what saving it once leaves).
C22_OneRecordPerURL ==
    \A url \in {URL_a1, URL_a2} :
        /\ Cardinality(RecordsOf(url)) <= 1
        /\ \A k \in RecordsOf(url) : store.rows[k] = store.last[url]

\* C23: a SaveBatch call that returns an error leaves the stored records
\* as they were before the call.
C23_SaveBatchAllOrNothing ==
    [][(store'.op = "SaveBatch" /\ store'.err)
          => store'.rows = store.rows]_vars

\* The first non-empty text the selectors of a list yield, "" if none does.
RECURSIVE FirstNonEmpty(_, _)
FirstNonEmpty(selectors, page) ==
    IF selectors = <<>> THEN ""
    ELSE IF TrimSpace(page[Head(selectors)]) # ""
    THEN TrimSpace(page[Head(selectors)])
    ELSE FirstNonEmpty(Tail(selectors), page)

\* C24: a field gets the result of the task's selector when the task gives
\* a non-empty one; otherwise the first non-empty result of the field's
\* fixed selectors in their order, and is empty only when none yields one.
C24_FieldFallbacks ==
    ex.done =>
        ex.out = IF ex.selector # "" THEN TrimSpace(ex.page[ex.selector])
                 ELSE FirstNonEmpty(FallbackSelectors(ex.field), ex.page)

HasTag(text) ==
    \E i, j \in 1..Len(text) : i < j /\ text[i] = "<" /\ text[j] = ">"

HasControl(text) == \E i \in 1..Len(text) : IsControl(text[i])

HasSpaceRun(text) ==
    \E i \in 1..(Len(text) - 1) : IsSpace(text[i]) /\ IsSpace(text[i + 1])

\* C25: a cleaned text holds no markup tag, no control character, no run of
\* two or more whitespace characters and no whitespace at its ends, and
\* cleaning it again returns it unchanged.
C25_CleanTextIsClean ==
    clean.done =>
        /\ ~HasTag(clean.out)
        /\ ~HasControl(clean.out)
        /\ ~HasSpaceRun(clean.out)
        /\ TrimSpaceChars(clean.out) = clean.out
        /\ Clean(clean.fn, clean.out) = clean.out

\* C26: a StartWithTask call made while a run of the same Spider is in
\* progress starts no second crawl and returns the already-running error.
C26_SecondCallRejected ==
    call2.midRun
        => /\ call2.pc # "running"
           /\ call2.pc = "returned" => call2.result = "error"

\* The goroutines whose StartWithTask call is in progress.
Crawling == {g \in Jobs : jobs[g] = "crawling"}

\* C27: the site's status is running whenever a background crawl of the
\* site is in progress, for every interleaving of RunSiteTask requests.
C27_RunningWhileCrawling == Crawling # {} => site = "running"

\* C28: after the Close of the run's store no Save is called on it: when
\* the store is closed no fetch of the run is pending, and no Save follows.
C28_NoSaveAfterClose ==
    /\ [](jobs[1] = "ended" => \A id \in ReqIds : req[id].phase \notin Live)
    /\ [][jobs[1] = "ended"
            => \A id \in ReqIds : req'[id].saves = req[id].saves]_vars

\* C28 witness: the store of a run is closed; in that run a page was
\* fetched again after a failure and its item saved.
C28_Witness ==
    /\ jobs[1] = "ended"
    /\ \E id \in ReqIds :
          /\ req[id].attempts >= 2
          /\ req[id].phase = "scraped"
          /\ req[id].saves = 1

\* C29: whatever the interleaving of the task API requests, a row whose
\* status is running is neither modified by UpdateTask nor removed by
\* DeleteTask, and a request answered with an error (the status it read was
\* running, or there was no row) leaves the row as it is.
Rejected(c) ==
    /\ api[c].op \in {"UpdateTask", "DeleteTask", "StartTask"}
    /\ api[c].status \in {"running", "absent"}

C29_RunningRowUntouched ==
    [][/\ (row.exists /\ row.status = "running")
           => (row'.exists /\ row'.name = row.name)
       /\ \A c \in ApiClients :
             (Rejected(c) /\ api'[c] = NoCall) => row' = row]_vars

\* C30: for every retry limit R and every Retry-Count c <= R a request
\* carries (none stands for 0), the error handler would retry exactly when
\* c < R as numbers, and getRetryCount gives c for the header's string.
CountStr(id) == IF req[id].hdr = <<>> THEN <<0>> ELSE req[id].hdr

C30_RetryArithmetic ==
    \A id \in ReqIds :
        StrValue(CountStr(id)) <= config.Retries
            => /\ ShouldRetry(req[id].hdr, config.Retries)
                      <=> StrValue(CountStr(id)) < config.Retries
               /\ getRetryCount(CountStr(id)) = StrValue(CountStr(id))

====
